---- MODULE Spec2Model ----
(***************************************************************************)
(* Model of the Grafana WebSocket data source backend (pkg/plugin):        *)
(* the channel-config registry written by queries, and the per-subscription*)
(* bridge RunStream / readMessage / proxyMessage.                          *)
(*                                                                         *)
(* Strings that the code inspects character by character (paths, ref ids)  *)
(* are sequences of one-character strings; opaque strings (messages,       *)
(* parameter values) are TLA+ strings.                                     *)
(***************************************************************************)
EXTENDS Integers, Sequences, FiniteSets, TLC

VARIABLES
    process,                \* the plugin process: "up", or "exited" after an unrecovered panic
    customHeaders,          \* WebSocketDataSource.customHeaders
    customQueryParameters,  \* WebSocketDataSource.customQueryParameters
    channelConfigs,         \* WebSocketDataSource.channelConfigs
    instances,              \* history: NewWebSocketDataSource calls and what they retired
    mu,                     \* WebSocketDataSource.mu: the writer holding it, the readers holding it
    access,                 \* per thread inside setChannelConfig / getChannelConfig: position, result
    queryLog,               \* history: every query() call, its response and what it registered
    queryData,              \* history: the last QueryData request and its response
    frontend,               \* history: the frontend's channel matching of streaming events
    subscribe,              \* history: SubscribeStream calls and the last status answered
    publishCalls,           \* history: number of PublishStream calls answered
    publishStatus,          \* status of the last PublishStreamResponse
    sup,                    \* per subscription: the RunStream call (position, request, result)
    ctxDone,                \* per subscription: ctx.Done() is closed
    proxy,                  \* per subscription: the wsDataProxy built by NewWsDataProxy
    conn,                   \* per subscription: wsDataProxy.wsConn
    msgRead,                \* per subscription: wsDataProxy.msgRead (unbuffered)
    done,                   \* per subscription: wsDataProxy.done (buffered, capacity 1)
    reader,                 \* per subscription: the readMessage goroutine
    relay,                  \* per subscription: the proxyMessage goroutine
    frames,                 \* per subscription: frames handed to sender.SendFrame, in order
    received,               \* history: messages wsConn.ReadMessage returned, in order
    dials,                  \* history: number of Dial attempts
    cancelledIdle,          \* history: the cancellation branch was taken while idle
    emitOverlap             \* history: a SendFrame call began while another was in progress

lockVars == <<mu, access>>
hostVars == <<process, instances, lockVars>>
instanceVars == <<customHeaders, customQueryParameters, channelConfigs>>
queryVars == <<queryLog, queryData, frontend>>
publishVars == <<publishCalls, publishStatus, subscribe>>
streamVars == <<sup, ctxDone, proxy, conn, msgRead, done, reader, relay, frames,
                received, dials, cancelledIdle, emitOverlap>>
vars == <<hostVars, instanceVars, queryVars, publishVars, streamVars>>

(***************************************************************************)
(* Bounds of the model.                                                    *)
(***************************************************************************)
MaxQueries == 2     \* query() calls in a behaviour
MaxMsgs == 3        \* messages the upstream delivers on one connection
MaxPublish == 1     \* PublishStream calls in a behaviour
MaxInstances == 2   \* NewWebSocketDataSource calls in a behaviour, the first included
MaxSubscribe == 1   \* SubscribeStream calls in a behaviour
MaxPairMsgs == 1    \* messages per connection when two subscriptions run

(***************************************************************************)
(* Strings as character sequences.                                         *)
(***************************************************************************)
Slash == "/"
Dot == "."

EmptyStr == << >>

(***************************************************************************)
(* path.Clean (Go standard library), as called at plugin.go:114.           *)
(* out is the lazybuf contents (out.w = Len(out)); r is the 0-based read   *)
(* index into p; dotdot is the index where ".." must stop.                 *)
(***************************************************************************)
RECURSIVE BackUp(_, _, _)
BackUp(buf, w, dotdot) ==
    \* for out.w > dotdot && out.index(out.w) != '/' { out.w-- }
    \* (index w, 0-based, is element w + 1 of buf)
    IF w > dotdot /\ buf[w + 1] # Slash
        THEN BackUp(buf, w - 1, dotdot)
        ELSE SubSeq(buf, 1, w)

DropElement(out, dotdot) ==
    \* out.w--, then the loop above
    BackUp(out, Len(out) - 1, dotdot)

RECURSIVE CopyElement(_, _, _)
CopyElement(p, r, out) ==
    \* for ; r < n && path[r] != '/'; r++ { out.append(path[r]) }
    IF r < Len(p) /\ p[r + 1] # Slash
        THEN CopyElement(p, r + 1, Append(out, p[r + 1]))
        ELSE [r |-> r, out |-> out]

RECURSIVE CleanLoop(_, _, _, _, _)
CleanLoop(p, rooted, r, dotdot, out) ==
    LET n == Len(p) IN
    IF r >= n THEN out
    ELSE IF p[r + 1] = Slash
        THEN CleanLoop(p, rooted, r + 1, dotdot, out)
    ELSE IF p[r + 1] = Dot /\ (r + 1 = n \/ p[r + 2] = Slash)
        THEN CleanLoop(p, rooted, r + 1, dotdot, out)
    ELSE IF p[r + 1] = Dot /\ p[r + 2] = Dot /\ (r + 2 = n \/ p[r + 3] = Slash)
        THEN IF Len(out) > dotdot
                 THEN CleanLoop(p, rooted, r + 2, dotdot, DropElement(out, dotdot))
             ELSE IF ~rooted
                 THEN LET o1 == IF Len(out) > 0 THEN Append(out, Slash) ELSE out
                          o2 == o1 \o <<Dot, Dot>>
                      IN  CleanLoop(p, rooted, r + 2, Len(o2), o2)
             ELSE CleanLoop(p, rooted, r + 2, dotdot, out)
    ELSE LET o1 == IF (rooted /\ Len(out) # 1) \/ (~rooted /\ Len(out) # 0)
                       THEN Append(out, Slash) ELSE out
             c == CopyElement(p, r, o1)
         IN  CleanLoop(p, rooted, c.r, dotdot, c.out)

Clean(p) ==
    IF p = EmptyStr THEN <<Dot>>
    ELSE LET rooted == p[1] = Slash
             out == IF rooted THEN CleanLoop(p, rooted, 1, 1, <<Slash>>)
                              ELSE CleanLoop(p, rooted, 0, 0, << >>)
         IN  IF out = << >> THEN <<Dot>> ELSE out

(***************************************************************************)
(* path.Join for two elements (Go standard library), as called at          *)
(* plugin.go:114: empty elements are ignored, the rest joined by '/' and   *)
(* cleaned; all empty gives "".                                            *)
(***************************************************************************)
Join(a, b) ==
    IF Len(a) + Len(b) = 0 THEN EmptyStr
    ELSE LET buf1 == a
             buf2 == IF Len(buf1) > 0 \/ b # EmptyStr
                         THEN (IF Len(buf1) > 0 THEN Append(buf1, Slash) ELSE buf1) \o b
                         ELSE buf1
         IN  Clean(buf2)

(***************************************************************************)
(* Inputs.                                                                 *)
(***************************************************************************)
EmptyMap == [k \in {} |-> ""]

\* Instance settings' query parameters (settings.QueryParameters).
GlobalDefaults == { EmptyMap, [a |-> "1", b |-> "2"] }

\* Query payload "queryParams"; absent or null unmarshals to a nil map,
\* which ranges like the empty map.
QueryParamSets == { EmptyMap, [b |-> "3", c |-> "4"] }

\* Query payload "path".
Paths == { EmptyStr,
           <<".">>,
           <<"f", "o", "o", "/">>,
           <<"/">>,
           <<"a", "/", "/", "b">>,
           <<"a", "/", ".", "/", "b">>,
           <<"a", "/", ".", ".", "/", "b">>,
           <<"/", "f", "/", "/">> }

RefIDs == { <<"A">>, <<"B">> }

\* backend.DataQuery: RefID and JSON; JSON is malformed or decodes to a queryModel.
MalformedJSON == [valid |-> FALSE, path |-> EmptyStr, queryParams |-> EmptyMap]

DataQueries(paths, paramSets) ==
    [refID : RefIDs,
     json : {MalformedJSON} \cup [valid : {TRUE}, path : paths, queryParams : paramSets]]

RegQueries == DataQueries(Paths, QueryParamSets)

\* pCtx.DataSourceInstanceSettings.UID
UID == "uid"

(***************************************************************************)
(* The registry and the query dispatcher.                                  *)
(***************************************************************************)
\* for k, v := range src { merged[k] = v }
SetAll(merged, src) ==
    [k \in DOMAIN merged \cup DOMAIN src |->
        IF k \in DOMAIN src THEN src[k] ELSE merged[k]]

mergeQueryParamsDefaultsWin(defaults, queryParams) ==
    SetAll(SetAll(EmptyMap, queryParams), defaults)

mergeQueryParams(defaults, queryParams) ==
    SetAll(SetAll(EmptyMap, defaults), queryParams)

setChannelConfigMergeOld(cc, channelPath, basePath, params) ==
    [k \in DOMAIN cc \cup {channelPath} |->
        IF k \in DOMAIN cc THEN cc[k]
        ELSE [path |-> basePath, queryParams |-> params]]

setChannelConfig(cc, channelPath, basePath, params) ==
    [k \in DOMAIN cc \cup {channelPath} |->
        IF k = channelPath THEN [path |-> basePath, queryParams |-> params]
        ELSE cc[k]]

ZeroChannelConfig == [path |-> EmptyStr, queryParams |-> EmptyMap]

getChannelConfigAlwaysOk(cc, channelPath) ==
    [cfg |-> IF channelPath \in DOMAIN cc THEN cc[channelPath] ELSE ZeroChannelConfig,
     ok |-> TRUE]

getChannelConfig(cc, channelPath) ==
    [cfg |-> IF channelPath \in DOMAIN cc THEN cc[channelPath] ELSE ZeroChannelConfig,
     ok |-> channelPath \in DOMAIN cc]

ChannelPathNoClean(wsPath, refID) == wsPath \o <<Slash>> \o refID

\* channel.Path: path.Join(path.Clean(qm.WsPath), query.RefID)
ChannelPath(wsPath, refID) == Join(Clean(wsPath), refID)

NoRegistration == [registered |-> FALSE, channelPath |-> EmptyStr,
                   basePath |-> EmptyStr, params |-> EmptyMap]

queryResultNoRegister(cc, defaults, q) ==
    IF ~q.json.valid
       THEN [response |-> [error |-> "unmarshal", frames |-> << >>],
             reg |-> NoRegistration,
             cc |-> cc]
       ELSE LET channelPath == ChannelPath(q.json.path, q.refID)
                frame == [name |-> "response", fields |-> << >>,
                          channel |-> [scope |-> "ds", namespace |-> UID,
                                       path |-> channelPath]]
                merged == mergeQueryParams(defaults, q.json.queryParams)
            IN  [response |-> [error |-> "nil", frames |-> <<frame>>],
                 reg |-> [registered |-> TRUE, channelPath |-> channelPath,
                          basePath |-> q.json.path, params |-> merged],
                 cc |-> cc]

\* wsds.query (lines 95-122) on registry cc of an instance with the given
\* defaults: the response, what it registered, and the registry afterwards.
queryResult(cc, defaults, q) ==
    IF ~q.json.valid
       THEN [response |-> [error |-> "unmarshal", frames |-> << >>],
             reg |-> NoRegistration,
             cc |-> cc]
       ELSE LET channelPath == ChannelPath(q.json.path, q.refID)
                frame == [name |-> "response", fields |-> << >>,
                          channel |-> [scope |-> "ds", namespace |-> UID,
                                       path |-> channelPath]]
                merged == mergeQueryParams(defaults, q.json.queryParams)
            IN  [response |-> [error |-> "nil", frames |-> <<frame>>],
                 reg |-> [registered |-> TRUE, channelPath |-> channelPath,
                          basePath |-> q.json.path, params |-> merged],
                 cc |-> setChannelConfig(cc, channelPath, q.json.path, merged)]

\* One call of wsds.query, as QueryData makes for each query of a request.
query(q) ==
    /\ process = "up"
    /\ Len(queryLog) < MaxQueries
    /\ LET r == queryResult(channelConfigs, customQueryParameters, q) IN
       /\ channelConfigs' = r.cc
       /\ queryLog' = Append(queryLog, [query |-> q, response |-> r.response,
                                        reg |-> r.reg])
    /\ UNCHANGED <<hostVars, customHeaders, customQueryParameters, queryData, frontend,
                   publishVars, streamVars>>

(***************************************************************************)
(* The frontend (src/datasource.ts): the channel it computes for a query   *)
(* and compares with the channel of a streaming event.                     *)
(***************************************************************************)
Space == " "

\* p.replace(/\/+/g, '/')
RECURSIVE ReplaceSlashRuns(_)
ReplaceSlashRuns(p) ==
    IF Len(p) < 2 THEN p
    ELSE IF p[1] = Slash /\ p[2] = Slash THEN ReplaceSlashRuns(Tail(p))
    ELSE <<p[1]>> \o ReplaceSlashRuns(Tail(p))

\* p.replace(/\/$/, '')
ReplaceLastSlash(p) ==
    IF Len(p) > 0 /\ p[Len(p)] = Slash THEN SubSeq(p, 1, Len(p) - 1) ELSE p

\* p.trim(), with the space as the only whitespace of the inputs
RECURSIVE trim(_)
trim(p) ==
    IF Len(p) > 0 /\ p[1] = Space THEN trim(Tail(p))
    ELSE IF Len(p) > 0 /\ p[Len(p)] = Space THEN trim(SubSeq(p, 1, Len(p) - 1))
    ELSE p

cleanChannelPath(p) == trim(ReplaceLastSlash(ReplaceSlashRuns(p)))

buildChannelPath(path, refId) ==
    LET base == cleanChannelPath(IF trim(path) # EmptyStr THEN path ELSE <<Dot>>)
    IN  IF base = EmptyStr \/ base = <<Dot>> THEN refId
        ELSE IF base = <<Slash>> THEN <<Slash>> \o refId
        ELSE base \o <<Slash>> \o refId

\* DataSource.query, state 'Streaming' (lines 61-70): for the event that
\* carries the channel of the frame the backend returned for query i, the
\* filter compares `ds/${uid}/${buildChannelPath(path, refId)}` with it.
FrontendMatch(i) ==
    /\ process = "up"
    /\ i \in 1..Len(queryLog)
    /\ queryLog[i].reg.registered
    /\ \A k \in 1..Len(frontend) : frontend[k].index # i
    /\ LET q == queryLog[i].query
           queryChannel == [scope |-> "ds", namespace |-> UID,
                            path |-> buildChannelPath(q.json.path, q.refID)]
           eventChannel == queryLog[i].response.frames[1].channel
       IN  frontend' = Append(frontend, [index |-> i, queryChannel |-> queryChannel,
                                         eventChannel |-> eventChannel,
                                         match |-> queryChannel = eventChannel])
    /\ UNCHANGED <<hostVars, instanceVars, queryLog, queryData, publishVars, streamVars>>

(***************************************************************************)
(* QueryData (lines 74-88): one request carrying several queries.          *)
(***************************************************************************)
\* req.Queries: RefIDs are unique within a request.
BatchRefIDs == { <<"A">>, <<"B">>, <<"C">> }

BatchPaths == { EmptyStr, <<"f", "o", "o", "/">> }

BatchQueries ==
    [refID : BatchRefIDs,
     json : {MalformedJSON}
              \cup [valid : {TRUE}, path : BatchPaths, queryParams : QueryParamSets]]

Requests ==
    { req \in UNION { [1..n -> BatchQueries] : n \in 1..MaxQueries } :
        \A i, j \in 1..Len(req) : i # j => req[i].refID # req[j].refID }

NoQueryData == [calls |-> 0, request |-> << >>, responses |-> EmptyMap, err |-> "none"]

\* response.Responses[q.RefID] = res
SetResponse(responses, refID, res) ==
    [k \in DOMAIN responses \cup {refID} |-> IF k = refID THEN res ELSE responses[k]]

RECURSIVE RunQueriesStopAtError(_, _, _)
RunQueriesStopAtError(st, defaults, queries) ==
    IF queries = << >> THEN st
    ELSE LET q == Head(queries)
             r == queryResult(st.cc, defaults, q)
             next == [cc |-> r.cc,
                      responses |-> SetResponse(st.responses, q.refID, r.response),
                      log |-> Append(st.log, [query |-> q, response |-> r.response,
                                              reg |-> r.reg])]
         IN  IF r.response.error # "nil" THEN next
             ELSE RunQueriesStopAtError(next, defaults, Tail(queries))

\* for _, q := range req.Queries { res := wsds.query(...); response.Responses[q.RefID] = res }
RECURSIVE RunQueries(_, _, _)
RunQueries(st, defaults, queries) ==
    IF queries = << >> THEN st
    ELSE LET q == Head(queries)
             r == queryResult(st.cc, defaults, q)
             next == [cc |-> r.cc,
                      responses |-> SetResponse(st.responses, q.refID, r.response),
                      log |-> Append(st.log, [query |-> q, response |-> r.response,
                                              reg |-> r.reg])]
         IN  RunQueries(next, defaults, Tail(queries))

\* QueryData: every query of the request in turn; return response, nil.
QueryData(req) ==
    /\ process = "up"
    /\ Len(queryLog) + Len(req) <= MaxQueries
    /\ LET st == RunQueries([cc |-> channelConfigs, responses |-> EmptyMap,
                             log |-> queryLog],
                            customQueryParameters, req) IN
       /\ channelConfigs' = st.cc
       /\ queryLog' = st.log
       /\ queryData' = [calls |-> queryData.calls + 1, request |-> req,
                        responses |-> st.responses, err |-> "nil"]
    /\ UNCHANGED <<hostVars, customHeaders, customQueryParameters, frontend, publishVars,
                   streamVars>>

(***************************************************************************)
(* The registry under its lock (lines 250-264): setChannelConfig and       *)
(* getChannelConfig step by step, run by concurrent threads.  The store of *)
(* the struct and the load of it are two steps each (path, then            *)
(* parameters): neither is atomic without the lock.                        *)
(***************************************************************************)
Writers == { "w1", "w2" }

Readers == { "r1", "r2" }

\* The channel all threads use, and the query each writer registers.
LockChannel == <<"f", "o", "o", "/", "A">>

WriterQuery ==
    [w1 |-> [refID |-> <<"A">>,
             json |-> [valid |-> TRUE, path |-> <<"f", "o", "o", "/">>,
                       queryParams |-> [b |-> "3", c |-> "4"]]],
     w2 |-> [refID |-> <<"A">>,
             json |-> [valid |-> TRUE, path |-> <<"f", "o", "o">>,
                       queryParams |-> EmptyMap]]]

\* The arguments of the writer's setChannelConfig call (lines 119-120).
WriterConfig(t) ==
    [path |-> WriterQuery[t].json.path,
     queryParams |-> mergeQueryParams(customQueryParameters,
                                      WriterQuery[t].json.queryParams)]

NoAccess == [pc |-> "idle", cfg |-> ZeroChannelConfig, ok |-> FALSE]

\* The map cell of key k, the zero value when k is absent.
Cell(cc, k) == IF k \in DOMAIN cc THEN cc[k] ELSE ZeroChannelConfig

StoreCell(cc, k, cell) == [x \in DOMAIN cc \cup {k} |-> IF x = k THEN cell ELSE cc[x]]

\* wsds.mu.Lock(): waits until no writer and no reader holds the lock.
MuLock(t) ==
    /\ process = "up"
    /\ access[t].pc = "idle"
    /\ mu.writer = "none"
    /\ mu.readers = {}
    /\ mu' = [mu EXCEPT !.writer = t]
    /\ access' = [access EXCEPT ![t].pc = "locked"]
    /\ UNCHANGED <<process, instances, instanceVars, queryVars, publishVars, streamVars>>

\* wsds.channelConfigs[channelPath] = channelConfig{...}: the path
StorePath(t) ==
    /\ process = "up"
    /\ access[t].pc = "locked"
    /\ channelConfigs' = StoreCell(channelConfigs, LockChannel,
                             [Cell(channelConfigs, LockChannel)
                                 EXCEPT !.path = WriterConfig(t).path])
    /\ access' = [access EXCEPT ![t].pc = "storedPath"]
    /\ UNCHANGED <<process, instances, mu, customHeaders, customQueryParameters, queryVars,
                   publishVars, streamVars>>

\* ... and the parameters
StoreParams(t) ==
    /\ process = "up"
    /\ access[t].pc = "storedPath"
    /\ channelConfigs' = StoreCell(channelConfigs, LockChannel,
                             [Cell(channelConfigs, LockChannel)
                                 EXCEPT !.queryParams = WriterConfig(t).queryParams])
    /\ access' = [access EXCEPT ![t].pc = "stored"]
    /\ UNCHANGED <<process, instances, mu, customHeaders, customQueryParameters, queryVars,
                   publishVars, streamVars>>

\* defer wsds.mu.Unlock(); setChannelConfig returns
MuUnlock(t) ==
    /\ process = "up"
    /\ access[t].pc = "stored"
    /\ mu' = [mu EXCEPT !.writer = "none"]
    /\ access' = [access EXCEPT ![t].pc = "returned"]
    /\ UNCHANGED <<process, instances, instanceVars, queryVars, publishVars, streamVars>>

MuRLockNoWait(t) ==
    /\ process = "up"
    /\ access[t].pc = "idle"
    /\ mu' = [mu EXCEPT !.readers = @ \cup {t}]
    /\ access' = [access EXCEPT ![t].pc = "rlocked"]
    /\ UNCHANGED <<process, instances, instanceVars, queryVars, publishVars, streamVars>>

\* wsds.mu.RLock(): waits until no writer holds the lock.
MuRLock(t) ==
    /\ process = "up"
    /\ access[t].pc = "idle"
    /\ mu.writer = "none"
    /\ mu' = [mu EXCEPT !.readers = @ \cup {t}]
    /\ access' = [access EXCEPT ![t].pc = "rlocked"]
    /\ UNCHANGED <<process, instances, instanceVars, queryVars, publishVars, streamVars>>

\* cfg, ok := wsds.channelConfigs[channelPath]: presence and the path
LoadPath(t) ==
    /\ process = "up"
    /\ access[t].pc = "rlocked"
    /\ access' = [access EXCEPT ![t] =
                     [pc |-> "loadedPath",
                      cfg |-> [@.cfg EXCEPT !.path = Cell(channelConfigs, LockChannel).path],
                      ok |-> LockChannel \in DOMAIN channelConfigs]]
    /\ UNCHANGED <<process, instances, mu, instanceVars, queryVars, publishVars, streamVars>>

\* ... and the parameters
LoadParams(t) ==
    /\ process = "up"
    /\ access[t].pc = "loadedPath"
    /\ access' = [access EXCEPT ![t] =
                     [@ EXCEPT !.pc = "loaded",
                               !.cfg = [@ EXCEPT !.queryParams =
                                           Cell(channelConfigs, LockChannel).queryParams]]]
    /\ UNCHANGED <<process, instances, mu, instanceVars, queryVars, publishVars, streamVars>>

\* defer wsds.mu.RUnlock(); getChannelConfig returns cfg, ok
MuRUnlock(t) ==
    /\ process = "up"
    /\ access[t].pc = "loaded"
    /\ mu' = [mu EXCEPT !.readers = @ \ {t}]
    /\ access' = [access EXCEPT ![t].pc = "returned"]
    /\ UNCHANGED <<process, instances, instanceVars, queryVars, publishVars, streamVars>>

\* RunStream goes on after the lookup (lines 191-198): the error frame and
\* return, or NewWsDataProxy and its dial.
AfterLookup(t) ==
    /\ process = "up"
    /\ t \in Readers
    /\ access[t].pc = "returned"
    /\ access' = [access EXCEPT ![t].pc = IF access[t].ok THEN "dialing" ELSE "failed"]
    /\ UNCHANGED <<process, instances, mu, instanceVars, queryVars, publishVars, streamVars>>

(***************************************************************************)
(* Streaming: one RunStream call per subscription.                         *)
(***************************************************************************)
Subs == { "s1" }

\* Raw texts the upstream can deliver.
Msgs == { "M1", "M2", "M3" }

\* Queries of the streaming specification: the same channel, two configs.
StreamQueries ==
    { [refID |-> <<"A">>,
       json |-> [valid |-> TRUE, path |-> <<"f", "o", "o", "/">>,
                 queryParams |-> [b |-> "3", c |-> "4"]]],
      [refID |-> <<"A">>,
       json |-> [valid |-> TRUE, path |-> <<"f", "o", "o">>,
                 queryParams |-> EmptyMap]] }

\* req.Path of RunStream requests: a channel the queries register, and one they never do.
StreamPaths == { <<"f", "o", "o", "/", "A">>, <<"C">> }

\* Path of the instance's URL (req.PluginContext.DataSourceInstanceSettings.URL).
HostPath == <<"/", "w", "s">>

NoProxy == [built |-> FALSE, wsUrl |-> [path |-> EmptyStr, rawQuery |-> EmptyMap],
            path |-> EmptyStr, queryParams |-> EmptyMap]

SupIdle == [pc |-> "idle", path |-> EmptyStr, hostOk |-> TRUE, instance |-> 0,
            cfg |-> ZeroChannelConfig, err |-> "nil", result |-> "none"]

ReaderNone == [pc |-> "none", message |-> ""]

RelayNone == [pc |-> "none", message |-> "", fields |-> << >>, sendErr |-> FALSE]

\* data.NewField(name, nil, []string{value})
NewField(name, value) == [name |-> name, values |-> <<value>>]

\* sendErrorFrame: one "error" frame with one field, handed to SendFrame;
\* a SendFrame failure is only logged.
sendErrorFrame(fs, msg) ==
    Append(fs, [name |-> "error", fields |-> <<NewField("error", msg)>>])

\* The supervisor calls SendFrame (through sendErrorFrame): the call overlaps
\* the relay's when the relay is inside its own SendFrame call.
SupEmits(s) ==
    emitOverlap' = [emitOverlap EXCEPT ![s] = @ \/ relay[s].pc = "sending"]

\* RunStream up to the registry lookup (lines 187-196).
RunStream(s, path, hostOk) ==
    /\ process = "up"
    /\ sup[s].pc = "idle"
    /\ LET r == getChannelConfig(channelConfigs, path) IN
       IF ~r.ok
          THEN /\ frames' = [frames EXCEPT ![s] = sendErrorFrame(@, "no channel config found")]
               /\ SupEmits(s)
               /\ sup' = [sup EXCEPT ![s] = [@ EXCEPT !.pc = "returned", !.path = path,
                                                     !.hostOk = hostOk,
                                                     !.instance = instances.created,
                                                     !.err = "MissingConfig",
                                                     !.result = "MissingConfig"]]
          ELSE /\ sup' = [sup EXCEPT ![s] = [@ EXCEPT !.pc = "connecting", !.path = path,
                                                     !.hostOk = hostOk,
                                                     !.instance = instances.created,
                                                     !.cfg = r.cfg]]
               /\ UNCHANGED <<frames, emitOverlap>>
    /\ UNCHANGED <<hostVars, instanceVars, queryVars, publishVars, ctxDone, proxy, conn,
                   msgRead, done, reader, relay, received, dials, cancelledIdle>>

\* wsDataProxy.encodeURL: host path joined with the proxy's path, the
\* proxy's parameters as the query string.
encodeURL(cfgPath, cfgParams) ==
    [path |-> Join(HostPath, cfgPath), rawQuery |-> cfgParams]

ConnectFailLeavesConn(s) ==
    /\ process = "up"
    /\ sup[s].pc = "connecting"
    /\ \/ /\ ~sup[s].hostOk
          /\ UNCHANGED <<dials, conn>>
       \/ /\ sup[s].hostOk
          /\ dials' = [dials EXCEPT ![s] = @ + 1]
          /\ conn' = [conn EXCEPT ![s] = "open"]
    /\ frames' = [frames EXCEPT ![s] = sendErrorFrame(@, "Starting WebSocket")]
    /\ SupEmits(s)
    /\ sup' = [sup EXCEPT ![s] = [@ EXCEPT !.pc = "returned", !.err = "ConnectFailed",
                                          !.result = "ConnectFailed"]]
    /\ UNCHANGED <<hostVars, instanceVars, queryVars, publishVars, ctxDone, proxy,
                   msgRead, done, reader, relay, received, cancelledIdle>>

\* NewWsDataProxy failed (URL or dial): error frame, return err (lines 198-207).
\* A failed Dial returns no connection; wsConnect closes the response body.
ConnectFail(s) ==
    /\ process = "up"
    /\ sup[s].pc = "connecting"
    /\ \/ /\ ~sup[s].hostOk                                \* url.Parse fails: no dial
          /\ UNCHANGED dials
       \/ /\ sup[s].hostOk                                 \* Dial fails
          /\ dials' = [dials EXCEPT ![s] = @ + 1]
    /\ frames' = [frames EXCEPT ![s] = sendErrorFrame(@, "Starting WebSocket")]
    /\ SupEmits(s)
    /\ sup' = [sup EXCEPT ![s] = [@ EXCEPT !.pc = "returned", !.err = "ConnectFailed",
                                          !.result = "ConnectFailed"]]
    /\ UNCHANGED <<hostVars, instanceVars, queryVars, publishVars, ctxDone, proxy, conn,
                   msgRead, done, reader, relay, received, cancelledIdle>>

ConnectOkReadsRegistry(s) ==
    /\ process = "up"
    /\ sup[s].pc = "connecting"
    /\ sup[s].hostOk
    /\ dials' = [dials EXCEPT ![s] = @ + 1]
    /\ LET cfg == getChannelConfig(channelConfigs, sup[s].path).cfg IN
       proxy' = [proxy EXCEPT ![s] =
                    [built |-> TRUE,
                     wsUrl |-> encodeURL(cfg.path, cfg.queryParams),
                     path |-> cfg.path,
                     queryParams |-> cfg.queryParams]]
    /\ conn' = [conn EXCEPT ![s] = "open"]
    /\ msgRead' = [msgRead EXCEPT ![s] = "open"]
    /\ relay' = [relay EXCEPT ![s] = [@ EXCEPT !.pc = "recv"]]
    /\ reader' = [reader EXCEPT ![s] = [@ EXCEPT !.pc = "select"]]
    /\ sup' = [sup EXCEPT ![s] = [@ EXCEPT !.pc = "select", !.err = "nil"]]
    /\ UNCHANGED <<hostVars, instanceVars, queryVars, publishVars, ctxDone, done, frames,
                   received, cancelledIdle, emitOverlap>>

\* NewWsDataProxy succeeded; go proxyMessage(); go readMessage() (lines 198-211).
ConnectOk(s) ==
    /\ process = "up"
    /\ sup[s].pc = "connecting"
    /\ sup[s].hostOk
    /\ dials' = [dials EXCEPT ![s] = @ + 1]
    /\ proxy' = [proxy EXCEPT ![s] =
                    [built |-> TRUE,
                     wsUrl |-> encodeURL(sup[s].cfg.path, sup[s].cfg.queryParams),
                     path |-> sup[s].cfg.path,
                     queryParams |-> sup[s].cfg.queryParams]]
    /\ conn' = [conn EXCEPT ![s] = "open"]
    /\ msgRead' = [msgRead EXCEPT ![s] = "open"]
    /\ relay' = [relay EXCEPT ![s] = [@ EXCEPT !.pc = "recv"]]
    /\ reader' = [reader EXCEPT ![s] = [@ EXCEPT !.pc = "select"]]
    /\ sup' = [sup EXCEPT ![s] = [@ EXCEPT !.pc = "select", !.err = "nil"]]
    /\ UNCHANGED <<hostVars, instanceVars, queryVars, publishVars, ctxDone, done, frames, received,
                   cancelledIdle, emitOverlap>>

\* The caller cancels the subscription's context.
Cancel(s) ==
    /\ process = "up"
    /\ sup[s].pc \in {"connecting", "select"}
    /\ ~ctxDone[s]
    /\ ctxDone' = [ctxDone EXCEPT ![s] = TRUE]
    /\ UNCHANGED <<hostVars, instanceVars, queryVars, publishVars, sup, proxy, conn, msgRead, done,
                   reader, relay, frames, received, dials, cancelledIdle, emitOverlap>>

Idle(s) == reader[s].pc = "reading" /\ relay[s].pc = "recv"

\* case <-ctx.Done(): wsDataProxy.done <- true; return nil (lines 214-220).
SupCancelled(s) ==
    /\ process = "up"
    /\ sup[s].pc = "select"
    /\ ctxDone[s]
    /\ Len(done[s]) < 1                     \* capacity of done
    /\ done' = [done EXCEPT ![s] = Append(@, TRUE)]
    /\ sup' = [sup EXCEPT ![s] = [@ EXCEPT !.pc = "returned", !.result = "nil"]]
    /\ cancelledIdle' = [cancelledIdle EXCEPT ![s] = Idle(s)]
    /\ UNCHANGED <<hostVars, instanceVars, queryVars, publishVars, ctxDone, proxy, conn, msgRead,
                   reader, relay, frames, received, dials, emitOverlap>>

\* What a panic in RunStream does to the process: RunStream has no recover,
\* so the panic unwinds into the caller; a caller that recovers ends only
\* this call, one that does not lets the Go runtime end the process.
PanicOutcomes == { "up", "exited" }

SupReadErrorUsesRError(s) ==
    /\ process = "up"
    /\ sup[s].pc = "select"
    /\ reader[s].pc = "report"
    /\ reader' = [reader EXCEPT ![s] = [@ EXCEPT !.pc = "defer"]]
    /\ frames' = [frames EXCEPT ![s] = sendErrorFrame(@, "Error reading the websocket")]
    /\ SupEmits(s)
    /\ sup' = [sup EXCEPT ![s] = [@ EXCEPT !.pc = "returned", !.result = "ReadError"]]
    /\ UNCHANGED <<hostVars, instanceVars, queryVars, publishVars, ctxDone, proxy, conn,
                   msgRead, done, relay, received, dials, cancelledIdle>>

\* case rError := <-wsDataProxy.readingErrors (lines 221-228): the rendezvous
\* with the read activity's send; then err.Error() is evaluated, where err is
\* the variable of line 198, nil after a successful NewWsDataProxy: a nil
\* dereference, which panics before anything is logged, sent or returned.
SupReadError(s) ==
    /\ process = "up"
    /\ sup[s].pc = "select"
    /\ reader[s].pc = "report"
    /\ reader' = [reader EXCEPT ![s] = [@ EXCEPT !.pc = "defer"]]
    /\ IF sup[s].err = "nil"
          THEN /\ sup' = [sup EXCEPT ![s] = [@ EXCEPT !.pc = "panicked"]]
               /\ process' \in PanicOutcomes
               /\ UNCHANGED <<frames, emitOverlap>>
          ELSE /\ frames' = [frames EXCEPT ![s] =
                                sendErrorFrame(@, "Error reading the websocket")]
               /\ SupEmits(s)
               /\ sup' = [sup EXCEPT ![s] = [@ EXCEPT !.pc = "returned",
                                                     !.result = "ReadError"]]
               /\ UNCHANGED process
    /\ UNCHANGED <<instances, lockVars, instanceVars, queryVars, publishVars, ctxDone,
                   proxy, conn, msgRead, done, relay, received, dials, cancelledIdle>>

(***************************************************************************)
(* readMessage (lines 322-344).                                            *)
(***************************************************************************)
ReadSelectIgnoresDone(s) ==
    /\ process = "up"
    /\ reader[s].pc = "select"
    /\ reader' = [reader EXCEPT ![s] = [@ EXCEPT !.pc = "reading"]]
    /\ UNCHANGED <<hostVars, instanceVars, queryVars, publishVars, sup, ctxDone, proxy, conn,
                   msgRead, done, relay, frames, received, dials, cancelledIdle,
                   emitOverlap>>

\* select { case <-wsdp.done: return; default: ... ReadMessage() }
ReadSelect(s) ==
    /\ process = "up"
    /\ reader[s].pc = "select"
    /\ IF Len(done[s]) > 0
          THEN /\ done' = [done EXCEPT ![s] = Tail(@)]
               /\ reader' = [reader EXCEPT ![s] = [@ EXCEPT !.pc = "defer"]]
          ELSE /\ reader' = [reader EXCEPT ![s] = [@ EXCEPT !.pc = "reading"]]
               /\ UNCHANGED done
    /\ UNCHANGED <<hostVars, instanceVars, queryVars, publishVars, sup, ctxDone, proxy, conn,
                   msgRead, relay, frames, received, dials, cancelledIdle, emitOverlap>>

ReadMessageOkSkipsHandoff(s, m) ==
    /\ process = "up"
    /\ reader[s].pc = "reading"
    /\ conn[s] = "open"
    /\ Len(received[s]) < MaxMsgs
    /\ received' = [received EXCEPT ![s] = Append(@, m)]
    /\ reader' = [reader EXCEPT ![s] = [pc |-> "select", message |-> m]]
    /\ UNCHANGED <<hostVars, instanceVars, queryVars, publishVars, sup, ctxDone, proxy, conn,
                   msgRead, done, relay, frames, dials, cancelledIdle, emitOverlap>>

\* wsConn.ReadMessage() returns a message.
ReadMessageOk(s, m) ==
    /\ process = "up"
    /\ reader[s].pc = "reading"
    /\ conn[s] = "open"
    /\ Len(received[s]) < MaxMsgs
    /\ received' = [received EXCEPT ![s] = Append(@, m)]
    /\ reader' = [reader EXCEPT ![s] = [pc |-> "handoff", message |-> m]]
    /\ UNCHANGED <<hostVars, instanceVars, queryVars, publishVars, sup, ctxDone, proxy, conn,
                   msgRead, done, relay, frames, dials, cancelledIdle, emitOverlap>>

ReadMessageErrClosesConn(s) ==
    /\ process = "up"
    /\ reader[s].pc = "reading"
    /\ conn' = [conn EXCEPT ![s] = "closed"]
    /\ reader' = [reader EXCEPT ![s] = [pc |-> "report", message |-> ""]]
    /\ UNCHANGED <<hostVars, instanceVars, queryVars, publishVars, sup, ctxDone, proxy,
                   msgRead, done, relay, frames, received, dials, cancelledIdle,
                   emitOverlap>>

\* wsConn.ReadMessage() returns an error; time.Sleep(3s); the read activity
\* is then at the send on readingErrors.
ReadMessageErr(s) ==
    /\ process = "up"
    /\ reader[s].pc = "reading"
    /\ reader' = [reader EXCEPT ![s] = [pc |-> "report", message |-> ""]]
    /\ UNCHANGED <<hostVars, instanceVars, queryVars, publishVars, sup, ctxDone, proxy, conn,
                   msgRead, done, relay, frames, received, dials, cancelledIdle, emitOverlap>>

\* wsdp.msgRead <- message, received by message, ok := <-wsdp.msgRead
\* (unbuffered: both sides move together).
Handoff(s) ==
    /\ process = "up"
    /\ reader[s].pc = "handoff"
    /\ relay[s].pc = "recv"
    /\ msgRead[s] = "open"
    /\ relay' = [relay EXCEPT ![s] = [@ EXCEPT !.pc = "send",
                                              !.message = reader[s].message]]
    /\ reader' = [reader EXCEPT ![s] = [pc |-> "select", message |-> ""]]
    /\ UNCHANGED <<hostVars, instanceVars, queryVars, publishVars, sup, ctxDone, proxy, conn,
                   msgRead, done, frames, received, dials, cancelledIdle, emitOverlap>>

\* The deferred function: wsConn.Close(); close(msgRead).
ReadDefer(s) ==
    /\ process = "up"
    /\ reader[s].pc = "defer"
    /\ conn' = [conn EXCEPT ![s] = "closed"]
    /\ msgRead' = [msgRead EXCEPT ![s] = "closed"]
    /\ reader' = [reader EXCEPT ![s] = [pc |-> "done", message |-> ""]]
    /\ UNCHANGED <<hostVars, instanceVars, queryVars, publishVars, sup, ctxDone, proxy, done,
                   relay, frames, received, dials, cancelledIdle, emitOverlap>>

(***************************************************************************)
(* proxyMessage (lines 346-367).                                           *)
(***************************************************************************)
ProxyClosedEmitsZeroValue(s) ==
    /\ process = "up"
    /\ relay[s].pc = "recv"
    /\ msgRead[s] = "closed"
    /\ frames' = [frames EXCEPT ![s] =
                     Append(@, [name |-> "response",
                                fields |-> Append(relay[s].fields, NewField("data", ""))])]
    /\ relay' = [relay EXCEPT ![s] = [@ EXCEPT !.pc = "done"]]
    /\ UNCHANGED <<hostVars, instanceVars, queryVars, publishVars, sup, ctxDone, proxy, conn,
                   msgRead, done, reader, received, dials, cancelledIdle, emitOverlap>>

\* message, ok := <-wsdp.msgRead with the channel closed: return.
ProxyClosed(s) ==
    /\ process = "up"
    /\ relay[s].pc = "recv"
    /\ msgRead[s] = "closed"
    /\ relay' = [relay EXCEPT ![s] = [@ EXCEPT !.pc = "done"]]
    /\ UNCHANGED <<hostVars, instanceVars, queryVars, publishVars, sup, ctxDone, proxy, conn,
                   msgRead, done, reader, frames, received, dials, cancelledIdle, emitOverlap>>

\* frame.Fields = make([]*data.Field, 0)
ResetFieldsKeep(fields) == fields

ResetFields(fields) == << >>

\* frame.Fields = append(frame.Fields, data.NewField("data", nil, []string{string(message)}))
AppendDataField(fields, message) == Append(fields, NewField("data", message))

ProxySendStopsOnError(s, sendOk) ==
    /\ process = "up"
    /\ relay[s].pc = "send"
    /\ LET fields == AppendDataField(relay[s].fields, relay[s].message) IN
       /\ frames' = [frames EXCEPT ![s] =
                        Append(@, [name |-> "response", fields |-> fields])]
       /\ relay' = [relay EXCEPT ![s] = [pc |-> IF sendOk THEN "recv" ELSE "done",
                                         message |-> "",
                                         fields |-> ResetFields(fields),
                                         sendErr |-> ~sendOk]]
    /\ UNCHANGED <<hostVars, instanceVars, queryVars, publishVars, sup, ctxDone, proxy, conn,
                   msgRead, done, reader, received, dials, cancelledIdle, emitOverlap>>

\* The loop body after a receive: append the field, SendFrame, log a
\* failure, reset the fields.
ProxySend(s, sendOk) ==
    /\ process = "up"
    /\ relay[s].pc = "send"
    /\ LET fields == AppendDataField(relay[s].fields, relay[s].message) IN
       /\ frames' = [frames EXCEPT ![s] =
                        Append(@, [name |-> "response", fields |-> fields])]
       /\ relay' = [relay EXCEPT ![s] = [pc |-> "recv", message |-> "",
                                         fields |-> ResetFields(fields),
                                         sendErr |-> ~sendOk]]
    /\ UNCHANGED <<hostVars, instanceVars, queryVars, publishVars, sup, ctxDone, proxy, conn,
                   msgRead, done, reader, received, dials, cancelledIdle, emitOverlap>>

\* The same loop body with the SendFrame call as an interval: the frame is
\* handed to SendFrame, and the call returns later.
ProxySendBegin(s) ==
    /\ process = "up"
    /\ relay[s].pc = "send"
    /\ LET fields == AppendDataField(relay[s].fields, relay[s].message) IN
       /\ frames' = [frames EXCEPT ![s] =
                        Append(@, [name |-> "response", fields |-> fields])]
       /\ relay' = [relay EXCEPT ![s] = [@ EXCEPT !.pc = "sending", !.fields = fields]]
    /\ UNCHANGED <<hostVars, instanceVars, queryVars, publishVars, sup, ctxDone, proxy, conn,
                   msgRead, done, reader, received, dials, cancelledIdle, emitOverlap>>

ProxySendEnd(s, sendOk) ==
    /\ process = "up"
    /\ relay[s].pc = "sending"
    /\ relay' = [relay EXCEPT ![s] = [pc |-> "recv", message |-> "",
                                      fields |-> ResetFields(relay[s].fields),
                                      sendErr |-> ~sendOk]]
    /\ UNCHANGED <<hostVars, instanceVars, queryVars, publishVars, sup, ctxDone, proxy, conn,
                   msgRead, done, reader, frames, received, dials, cancelledIdle,
                   emitOverlap>>

(***************************************************************************)
(* SubscribeStream (lines 177-183) and PublishStream (lines 232-237).      *)
(***************************************************************************)
SubscribeStreamChecksRegistry(path) ==
    /\ process = "up"
    /\ subscribe.calls < MaxSubscribe
    /\ subscribe' = [calls |-> subscribe.calls + 1, path |-> path,
                     status |-> IF getChannelConfig(channelConfigs, path).ok
                                   THEN "OK" ELSE "NotFound"]
    /\ UNCHANGED <<hostVars, instanceVars, queryVars, publishCalls, publishStatus,
                   streamVars>>

\* status := backend.SubscribeStreamStatusOK, for every request.
SubscribeStream(path) ==
    /\ process = "up"
    /\ subscribe.calls < MaxSubscribe
    /\ subscribe' = [calls |-> subscribe.calls + 1, path |-> path, status |-> "OK"]
    /\ UNCHANGED <<hostVars, instanceVars, queryVars, publishCalls, publishStatus,
                   streamVars>>

(***************************************************************************)
(* PublishStream (lines 232-237).                                          *)
(***************************************************************************)
Payloads == { "p1", "p2" }

PublishStreamForward(path, payload) ==
    /\ process = "up"
    /\ publishCalls < MaxPublish
    /\ publishCalls' = publishCalls + 1
    /\ publishStatus' = "OK"
    /\ frames' = [s \in Subs |->
                     IF sup[s].path = path
                        THEN Append(frames[s], [name |-> "response",
                                                fields |-> <<NewField("data", payload)>>])
                        ELSE frames[s]]
    /\ UNCHANGED <<hostVars, instanceVars, queryVars, subscribe, sup, ctxDone, proxy, conn,
                   msgRead, done, reader, relay, received, dials, cancelledIdle,
                   emitOverlap>>

PublishStream(path, payload) ==
    /\ process = "up"
    /\ publishCalls < MaxPublish
    /\ publishCalls' = publishCalls + 1
    /\ publishStatus' = "PermissionDenied"
    /\ UNCHANGED <<hostVars, instanceVars, queryVars, subscribe, streamVars>>

(***************************************************************************)
(* Instance settings: models.LoadPluginSettings (pkg/models/settings.go)   *)
(* and the factory NewWebSocketDataSource (plugin.go:40-51).               *)
(* Legacy keys and the keys of the secure data are character sequences;    *)
(* header and parameter names and their values are opaque strings.         *)
(***************************************************************************)
HeaderName == <<"h", "e", "a", "d", "e", "r", "N", "a", "m", "e">>

QueryParamName == <<"q", "u", "e", "r", "y", "P", "a", "r", "a", "m", "N", "a", "m", "e">>

\* const marker = "Name"
Marker == <<"N", "a", "m", "e">>

\* the literal "Value" of valueFor
ValueWord == <<"V", "a", "l", "u", "e">>

hasPrefix(s, prefix) ==
    Len(s) >= Len(prefix) /\ SubSeq(s, 1, Len(prefix)) = prefix

\* 0-based index of the first occurrence of substr in s, or -1.
indexOf(s, substr) ==
    LET hits == { i \in 0..Len(s) :
                     /\ i + Len(substr) <= Len(s)
                     /\ SubSeq(s, i + 1, i + Len(substr)) = substr }
    IN  IF hits = {} THEN -1 ELSE CHOOSE i \in hits : \A j \in hits : i <= j

splitOnName(setting) ==
    LET idx == indexOf(setting, Marker)
    IN  IF idx >= 0
           THEN <<SubSeq(setting, 1, idx),
                  SubSeq(setting, idx + Len(Marker) + 1, Len(setting))>>
           ELSE <<setting>>

prefixFromName(setting) ==
    LET parts == splitOnName(setting)
    IN  IF Len(parts) = 2 THEN parts[1] ELSE EmptyStr

suffixFromName(setting) ==
    LET parts == splitOnName(setting)
    IN  IF Len(parts) = 2 THEN parts[2] ELSE EmptyStr

\* s.secure[prefix+"Value"+suffix]; a missing key reads as "".
valueFor(secure, prefix, suffix) ==
    LET k == prefix \o ValueWord \o suffix
    IN  IF k \in DOMAIN secure THEN secure[k] ELSE ""

HeaderValue(secure, headerNameKey) ==
    valueFor(secure, prefixFromName(headerNameKey), suffixFromName(headerNameKey))

QueryParamValue(secure, paramNameKey) ==
    valueFor(secure, prefixFromName(paramNameKey), suffixFromName(paramNameKey))

\* for k, v := range m { if s := toString(v); s != "" { dst[k] = s } }
CopyNonEmpty(m) == [k \in { x \in DOMAIN m : m[x] # "" } |-> m[k]]

\* dst[name] = value
SetName(dst, name, value) ==
    [k \in DOMAIN dst \cup {name} |-> IF k = name THEN value ELSE dst[k]]

\* The body of the loop over the legacy keys (lines 55-67) for one key.
LegacyKey(settings, key, name, secure) ==
    IF ~hasPrefix(key, HeaderName) /\ ~hasPrefix(key, QueryParamName) THEN settings
    ELSE IF name = "" THEN settings
    ELSE IF hasPrefix(key, HeaderName)
            THEN [settings EXCEPT !.headers = SetName(@, name, HeaderValue(secure, key))]
            ELSE [settings EXCEPT !.queryParameters =
                                      SetName(@, name, QueryParamValue(secure, key))]

\* for key, val := range raw (lines 54-68).  Go ranges over a map in an
\* unspecified order; the inputs below give a name to at most one legacy key
\* of each kind, so every order writes the same settings.
RECURSIVE LegacyLoop(_, _, _, _)
LegacyLoop(settings, legacy, keys, secure) ==
    IF keys = {} THEN settings
    ELSE LET key == CHOOSE k \in keys : TRUE
         IN  LegacyLoop(LegacyKey(settings, key, legacy[key], secure),
                        legacy, keys \ {key}, secure)

\* LoadPluginSettings (lines 24-71): JSONData that does not unmarshal is an
\* error; otherwise the structured fields are copied, then the legacy keys
\* are written over them.
LoadPluginSettings(ds) ==
    IF ~ds.json.valid
       THEN [err |-> "unmarshal", headers |-> EmptyMap, queryParameters |-> EmptyMap]
       ELSE LET structured == [headers |-> CopyNonEmpty(ds.json.headers),
                               queryParameters |-> CopyNonEmpty(ds.json.queryParameters)]
                merged == LegacyLoop(structured, ds.json.legacy, DOMAIN ds.json.legacy,
                                     ds.secure)
            IN  [err |-> "nil", headers |-> merged.headers,
                 queryParameters |-> merged.queryParameters]

\* Settings inputs: JSONData (malformed, or an object with the structured
\* fields and legacy keys) and DecryptedSecureJSONData.
MalformedSettings ==
    [valid |-> FALSE, headers |-> EmptyMap, queryParameters |-> EmptyMap,
     legacy |-> EmptyMap]

HeaderName1 == HeaderName \o <<"1">>

QueryParamName1 == QueryParamName \o <<"1">>

HeaderValue1 == <<"h", "e", "a", "d", "e", "r">> \o ValueWord \o <<"1">>

QueryParamValue1 == <<"q", "u", "e", "r", "y", "P", "a", "r", "a", "m">> \o ValueWord \o <<"1">>

StructuredHeaders == { EmptyMap, [X |-> "sx"], [X |-> ""] }

LegacyMaps ==
    { EmptyMap,
      HeaderName1 :> "X",
      HeaderName1 :> "Y",
      QueryParamName1 :> "a",
      QueryParamName1 :> "z",
      (HeaderName1 :> "X") @@ (QueryParamName1 :> "a") }

SecureMaps ==
    { EmptyMap,
      HeaderValue1 :> "lx",
      QueryParamValue1 :> "la",
      (HeaderValue1 :> "lx") @@ (QueryParamValue1 :> "la") }

SettingsInputs ==
    [json : {MalformedSettings}
              \cup [valid : {TRUE}, headers : StructuredHeaders,
                    queryParameters : GlobalDefaults, legacy : LegacyMaps],
     secure : SecureMaps]

\* Settings with only structured query parameters.
SettingsOf(defaults) ==
    [json |-> [valid |-> TRUE, headers |-> EmptyMap, queryParameters |-> defaults,
               legacy |-> EmptyMap],
     secure |-> EmptyMap]

EmptyRegistry == [k \in {} |-> ZeroChannelConfig]

NewWebSocketDataSourceKeepsRegistry(ds) ==
    /\ process = "up"
    /\ instances.created + instances.failed < MaxInstances
    /\ LET settings == LoadPluginSettings(ds) IN
       IF settings.err # "nil"
          THEN /\ instances' = [instances EXCEPT !.failed = @ + 1, !.settings = ds,
                                                 !.err = settings.err]
               /\ UNCHANGED instanceVars
          ELSE /\ customHeaders' = settings.headers
               /\ customQueryParameters' = settings.queryParameters
               /\ UNCHANGED channelConfigs
               /\ instances' = [created |-> instances.created + 1,
                                failed |-> instances.failed,
                                settings |-> ds, err |-> "nil",
                                retired |-> instances.retired \cup DOMAIN channelConfigs]
    /\ UNCHANGED <<process, lockVars, queryVars, publishVars, streamVars>>

\* NewWebSocketDataSource: the host creates an instance for new settings;
\* the instance it replaces is disposed (Dispose only logs).
NewWebSocketDataSource(ds) ==
    /\ process = "up"
    /\ instances.created + instances.failed < MaxInstances
    /\ LET settings == LoadPluginSettings(ds) IN
       IF settings.err # "nil"
          THEN /\ instances' = [instances EXCEPT !.failed = @ + 1, !.settings = ds,
                                                 !.err = settings.err]
               /\ UNCHANGED instanceVars
          ELSE /\ customHeaders' = settings.headers
               /\ customQueryParameters' = settings.queryParameters
               /\ channelConfigs' = EmptyRegistry
               /\ instances' = [created |-> instances.created + 1,
                                failed |-> instances.failed,
                                settings |-> ds, err |-> "nil",
                                retired |-> instances.retired \cup DOMAIN channelConfigs]
    /\ UNCHANGED <<process, lockVars, queryVars, publishVars, streamVars>>

(***************************************************************************)
(* Specifications.                                                         *)
(***************************************************************************)
InitStream ==
    /\ sup = [s \in Subs |-> SupIdle]
    /\ ctxDone = [s \in Subs |-> FALSE]
    /\ proxy = [s \in Subs |-> NoProxy]
    /\ conn = [s \in Subs |-> "none"]
    /\ msgRead = [s \in Subs |-> "none"]
    /\ done = [s \in Subs |-> << >>]
    /\ reader = [s \in Subs |-> ReaderNone]
    /\ relay = [s \in Subs |-> RelayNone]
    /\ frames = [s \in Subs |-> << >>]
    /\ received = [s \in Subs |-> << >>]
    /\ dials = [s \in Subs |-> 0]
    /\ cancelledIdle = [s \in Subs |-> FALSE]
    /\ emitOverlap = [s \in Subs |-> FALSE]

\* The instance as NewWebSocketDataSource returns it (lines 46-50).
InitInstance(defaults) ==
    /\ process = "up"
    /\ customHeaders = LoadPluginSettings(SettingsOf(defaults)).headers
    /\ customQueryParameters = LoadPluginSettings(SettingsOf(defaults)).queryParameters
    /\ channelConfigs = EmptyRegistry
    /\ instances = [created |-> 1, failed |-> 0, settings |-> SettingsOf(defaults),
                    err |-> "nil", retired |-> {}]
    /\ queryLog = << >>
    /\ queryData = NoQueryData
    /\ frontend = << >>
    /\ mu = [writer |-> "none", readers |-> {}]
    /\ access = [t \in Writers \cup Readers |-> NoAccess]
    /\ publishCalls = 0
    /\ publishStatus = "none"
    /\ subscribe = [calls |-> 0, path |-> EmptyStr, status |-> "none"]

Init ==
    /\ InitInstance([a |-> "1", b |-> "2"])
    /\ InitStream

Next ==
    \/ \E q \in StreamQueries : query(q)
    \/ \E s \in Subs, path \in StreamPaths, hostOk \in BOOLEAN : RunStream(s, path, hostOk)
    \/ \E s \in Subs : ConnectFail(s)
    \/ \E s \in Subs : ConnectOk(s)
    \/ \E s \in Subs : Cancel(s)
    \/ \E s \in Subs : SupCancelled(s)
    \/ \E s \in Subs : SupReadError(s)
    \/ \E s \in Subs : ReadSelect(s)
    \/ \E s \in Subs, m \in Msgs : ReadMessageOk(s, m)
    \/ \E s \in Subs : ReadMessageErr(s)
    \/ \E s \in Subs : Handoff(s)
    \/ \E s \in Subs : ReadDefer(s)
    \/ \E s \in Subs : ProxyClosed(s)
    \/ \E s \in Subs, sendOk \in BOOLEAN : ProxySend(s, sendOk)
    \/ \E path \in StreamPaths, payload \in Payloads : PublishStream(path, payload)

Spec == Init /\ [][Next]_vars

\* The Go scheduler runs every runnable goroutine: the supervisor's select,
\* the read activity's own steps and the relay activity's steps are weakly
\* fair.  What the upstream does (deliver, fail) and whether the caller
\* cancels is not.
Fairness ==
    \A s \in Subs :
        /\ WF_vars(SupCancelled(s))
        /\ WF_vars(SupReadError(s))
        /\ WF_vars(ReadSelect(s))
        /\ WF_vars(Handoff(s))
        /\ WF_vars(ReadDefer(s))
        /\ WF_vars(ProxyClosed(s))
        /\ WF_vars(\E sendOk \in BOOLEAN : ProxySend(s, sendOk))

FairSpec == Init /\ [][Next]_vars /\ Fairness

\* The registry under arbitrary queries, no subscription running.
InitReg ==
    /\ \E defaults \in GlobalDefaults : InitInstance(defaults)
    /\ InitStream

NextReg == \E q \in RegQueries : query(q)

RegSpec == InitReg /\ [][NextReg]_vars

\* The registry under QueryData requests of several queries.
NextBatch == \E req \in Requests : QueryData(req)

BatchSpec == InitReg /\ [][NextBatch]_vars

\* Queries and the frontend's matching of their channels.
NextChannel ==
    \/ \E q \in RegQueries : query(q)
    \/ \E i \in 1..MaxQueries : FrontendMatch(i)

ChannelSpec == InitReg /\ [][NextChannel]_vars

\* Concurrent registrations and lookups of one channel.
NextLock ==
    \/ \E t \in Writers : MuLock(t)
    \/ \E t \in Writers : StorePath(t)
    \/ \E t \in Writers : StoreParams(t)
    \/ \E t \in Writers : MuUnlock(t)
    \/ \E t \in Readers : MuRLock(t)
    \/ \E t \in Readers : LoadPath(t)
    \/ \E t \in Readers : LoadParams(t)
    \/ \E t \in Readers : MuRUnlock(t)
    \/ \E t \in Readers : AfterLookup(t)

LockSpec == InitReg /\ [][NextLock]_vars

\* Instance creation over the settings inputs.
NextSettings == \E ds \in SettingsInputs : NewWebSocketDataSource(ds)

SettingsSpec == InitReg /\ [][NextSettings]_vars

\* Reconfiguration, subscribing and the start of RunStream.
ConfigSettings ==
    { [json |-> MalformedSettings, secure |-> EmptyMap],
      SettingsOf(EmptyMap),
      SettingsOf([a |-> "1", b |-> "2"]) }

NextLifecycle ==
    \/ \E ds \in ConfigSettings : NewWebSocketDataSource(ds)
    \/ \E q \in StreamQueries : query(q)
    \/ \E path \in StreamPaths : SubscribeStream(path)
    \/ \E s \in Subs, path \in StreamPaths, hostOk \in BOOLEAN : RunStream(s, path, hostOk)
    \/ \E s \in Subs : ConnectFail(s)
    \/ \E s \in Subs : ConnectOk(s)

LifecycleSpec == Init /\ [][NextLifecycle]_vars

\* The bridge with the relay's SendFrame call as an interval.
NextEmit ==
    \/ \E q \in StreamQueries : query(q)
    \/ \E s \in Subs, path \in StreamPaths, hostOk \in BOOLEAN : RunStream(s, path, hostOk)
    \/ \E s \in Subs : ConnectFail(s)
    \/ \E s \in Subs : ConnectOk(s)
    \/ \E s \in Subs : Cancel(s)
    \/ \E s \in Subs : SupCancelled(s)
    \/ \E s \in Subs : SupReadError(s)
    \/ \E s \in Subs : ReadSelect(s)
    \/ \E s \in Subs, m \in Msgs : ReadMessageOk(s, m)
    \/ \E s \in Subs : ReadMessageErr(s)
    \/ \E s \in Subs : Handoff(s)
    \/ \E s \in Subs : ReadDefer(s)
    \/ \E s \in Subs : ProxyClosed(s)
    \/ \E s \in Subs : ProxySendBegin(s)
    \/ \E s \in Subs, sendOk \in BOOLEAN : ProxySendEnd(s, sendOk)

EmitSpec == Init /\ [][NextEmit]_vars

PairQuery ==
    [refID |-> <<"A">>,
     json |-> [valid |-> TRUE, path |-> <<"f", "o", "o", "/">>,
               queryParams |-> [b |-> "3", c |-> "4"]]]

\* The bridge for one registered config and one message text, under the
\* scheduler's fairness: teardown after cancellation or failure.
NextStop ==
    \/ query(PairQuery)
    \/ \E s \in Subs, path \in StreamPaths, hostOk \in BOOLEAN : RunStream(s, path, hostOk)
    \/ \E s \in Subs : ConnectFail(s)
    \/ \E s \in Subs : ConnectOk(s)
    \/ \E s \in Subs : Cancel(s)
    \/ \E s \in Subs : SupCancelled(s)
    \/ \E s \in Subs : SupReadError(s)
    \/ \E s \in Subs : ReadSelect(s)
    \/ \E s \in Subs : ReadMessageOk(s, "M1")
    \/ \E s \in Subs : ReadMessageErr(s)
    \/ \E s \in Subs : Handoff(s)
    \/ \E s \in Subs : ReadDefer(s)
    \/ \E s \in Subs : ProxyClosed(s)
    \/ \E s \in Subs, sendOk \in BOOLEAN : ProxySend(s, sendOk)

StopSpec == Init /\ [][NextStop]_vars /\ Fairness

\* Two subscriptions running on the same instance.
PairSubs == { "s1", "s2" }

InitPair ==
    /\ InitInstance([a |-> "1", b |-> "2"])
    /\ sup = [s \in PairSubs |-> SupIdle]
    /\ ctxDone = [s \in PairSubs |-> FALSE]
    /\ proxy = [s \in PairSubs |-> NoProxy]
    /\ conn = [s \in PairSubs |-> "none"]
    /\ msgRead = [s \in PairSubs |-> "none"]
    /\ done = [s \in PairSubs |-> << >>]
    /\ reader = [s \in PairSubs |-> ReaderNone]
    /\ relay = [s \in PairSubs |-> RelayNone]
    /\ frames = [s \in PairSubs |-> << >>]
    /\ received = [s \in PairSubs |-> << >>]
    /\ dials = [s \in PairSubs |-> 0]
    /\ cancelledIdle = [s \in PairSubs |-> FALSE]
    /\ emitOverlap = [s \in PairSubs |-> FALSE]

NextPair ==
    \/ query(PairQuery)
    \/ \E s \in PairSubs, path \in StreamPaths, hostOk \in BOOLEAN :
          RunStream(s, path, hostOk)
    \/ \E s \in PairSubs : ConnectFail(s)
    \/ \E s \in PairSubs : ConnectOk(s)
    \/ \E s \in PairSubs : Cancel(s)
    \/ \E s \in PairSubs : SupCancelled(s)
    \/ \E s \in PairSubs : SupReadError(s)
    \/ \E s \in PairSubs : ReadSelect(s)
    \/ \E s \in PairSubs : Len(received[s]) < MaxPairMsgs /\ ReadMessageOk(s, "M1")
    \/ \E s \in PairSubs : ReadMessageErr(s)
    \/ \E s \in PairSubs : Handoff(s)
    \/ \E s \in PairSubs : ReadDefer(s)
    \/ \E s \in PairSubs : ProxyClosed(s)
    \/ \E s \in PairSubs, sendOk \in BOOLEAN : ProxySend(s, sendOk)

PairSpec == InitPair /\ [][NextPair]_vars

(***************************************************************************)
(* Properties.                                                             *)
(***************************************************************************)
IsResponse(f) == f.name = "response"

IsError(f) == f.name = "error"

Responses(s) == SelectSeq(frames[s], IsResponse)

Errors(s) == SelectSeq(frames[s], IsError)

ResponseFrameOf(m) ==
    [name |-> "response", fields |-> <<[name |-> "data", values |-> <<m>>]>>]

\* C1: the response frames emitted on a subscription are, in order, one per
\* message and carrying its raw text, a prefix of the messages the read
\* activity received: nothing dropped, duplicated, reordered or altered.
C1_ResponsesArePrefixOfReceived ==
    \A s \in Subs :
        /\ Len(Responses(s)) <= Len(received[s])
        /\ \A i \in 1..Len(Responses(s)) :
               Responses(s)[i] = ResponseFrameOf(received[s][i])

C1_Witness ==
    \E s \in Subs :
        /\ sup[s].pc = "select"
        /\ received[s] = <<"M1", "M2", "M3">>
        /\ frames[s] = <<ResponseFrameOf("M1"), ResponseFrameOf("M2"),
                         ResponseFrameOf("M3")>>

MissingConfigOutcome(s) ==
    /\ sup[s].pc = "returned"
    /\ sup[s].result = "MissingConfig"
    /\ Len(frames[s]) = 1
    /\ IsError(frames[s][1])
    /\ dials[s] = 0
    /\ conn[s] = "none"
    /\ ~proxy[s].built
    /\ reader[s].pc = "none"
    /\ relay[s].pc = "none"

\* C2: a RunStream call for a channel path with no registry entry returns
\* the missing-config error at once, with exactly one error frame emitted,
\* and from then on no dial is ever attempted and neither activity ever runs.
C2_MissingConfigFails ==
    /\ [][\A s \in Subs :
            (sup[s].pc = "idle" /\ sup'[s].pc # "idle"
                 /\ sup'[s].path \notin DOMAIN channelConfigs)
            => sup'[s].result = "MissingConfig"]_vars
    /\ [](\A s \in Subs : sup[s].result = "MissingConfig" => MissingConfigOutcome(s))

C2_Witness ==
    \E s \in Subs :
        /\ sup[s].result = "MissingConfig"
        /\ sup[s].path = <<"C">>
        /\ DOMAIN channelConfigs # {}

\* C3: when the read activity's failure report is taken by the supervisor,
\* RunStream emits one error frame and returns the read error.
C3_ReadFailureEmitsErrorAndReturns ==
    [][\A s \in Subs :
          (reader[s].pc = "report" /\ reader'[s].pc = "defer")
          => /\ sup'[s].pc = "returned"
             /\ sup'[s].result = "ReadError"
             /\ Len(Errors(s)') = Len(Errors(s)) + 1]_vars

FailureHandled(s) == sup[s].pc = "panicked" \/ sup[s].result = "ReadError"

RECURSIVE ResponseFramesOf(_)
ResponseFramesOf(ms) ==
    IF ms = << >> THEN << >>
    ELSE <<ResponseFrameOf(Head(ms))>> \o ResponseFramesOf(Tail(ms))

TornDown(s) ==
    /\ conn[s] = "closed"
    /\ reader[s].pc = "done"
    /\ relay[s].pc = "done"

\* C5: cancelling an idle running subscription leads to the connection
\* being closed and both loops having ended, whatever the upstream does.
C5_IdleCancelTearsDown ==
    \A s \in Subs : cancelledIdle[s] ~> TornDown(s)

\* C6: after the cancellation branch was taken on an idle subscription no
\* further frame is emitted on it.
C6_NoFrameAfterIdleCancel ==
    [][\A s \in Subs : cancelledIdle[s] => frames'[s] = frames[s]]_vars

\* C7: every PublishStream call is answered permission-denied and changes
\* nothing of the instance, the proxies, the handoffs or the frames.
C7_PublishDeniedAndInert ==
    /\ [][publishCalls' # publishCalls
            => /\ publishStatus' = "PermissionDenied"
               /\ UNCHANGED <<hostVars, instanceVars, queryVars, subscribe, streamVars>>]_vars
    /\ [](publishCalls > 0 => publishStatus = "PermissionDenied")

C7_Witness ==
    /\ publishCalls > 0
    /\ \E s \in Subs :
          /\ sup[s].pc = "select"
          /\ relay[s].pc = "send"
          /\ Len(frames[s]) > 0

Registrations == { i \in 1..Len(queryLog) : queryLog[i].reg.registered }

RegistrationsOf(k) == { i \in Registrations : queryLog[i].reg.channelPath = k }

Latest(is) == CHOOSE i \in is : \A j \in is : j <= i

\* C8: a lookup finds a key exactly when some registration used it, and
\* then returns the path and parameters of the most recent such
\* registration; entries are never removed, and a registration leaves the
\* entries of all other keys as they were.
C8_LastWriteWins ==
    /\ [](\A k \in DOMAIN channelConfigs \cup { queryLog[i].reg.channelPath : i \in Registrations }
                      \cup { ChannelPath(path, refID) : path \in Paths, refID \in RefIDs } :
             LET r == getChannelConfig(channelConfigs, k) IN
             /\ r.ok <=> RegistrationsOf(k) # {}
             /\ r.ok => LET last == queryLog[Latest(RegistrationsOf(k))].reg IN
                        r.cfg = [path |-> last.basePath, queryParams |-> last.params])
    /\ [][\A k \in DOMAIN channelConfigs :
             /\ k \in DOMAIN channelConfigs'
             /\ (Len(queryLog') > Len(queryLog)
                    /\ queryLog'[Len(queryLog')].reg.channelPath # k)
                => channelConfigs'[k] = channelConfigs[k]]_vars

C8_Witness ==
    \E i, j \in Registrations :
        /\ i < j
        /\ queryLog[i].reg.channelPath = queryLog[j].reg.channelPath
        /\ queryLog[i].reg.basePath # queryLog[j].reg.basePath
        /\ queryLog[i].reg.params # queryLog[j].reg.params

\* C9: the parameters registered for a query hold exactly the keys of the
\* global defaults and of the query, a key of the query with the query's
\* value, any other with the default's; the defaults are never modified.
C9_MergeQueryWins ==
    /\ [](\A i \in Registrations :
             LET d == customQueryParameters
                 q == queryLog[i].query.json.queryParams
                 m == queryLog[i].reg.params
             IN  /\ DOMAIN m = DOMAIN d \cup DOMAIN q
                 /\ \A k \in DOMAIN q : m[k] = q[k]
                 /\ \A k \in DOMAIN d \ DOMAIN q : m[k] = d[k]
                 /\ (d = [a |-> "1", b |-> "2"] /\ q = [b |-> "3", c |-> "4"])
                       => m = [a |-> "1", b |-> "3", c |-> "4"])
    /\ [][customQueryParameters' = customQueryParameters]_vars

C9_Witness ==
    \E i \in Registrations :
        /\ customQueryParameters = [a |-> "1", b |-> "2"]
        /\ queryLog[i].query.json.queryParams = [b |-> "3", c |-> "4"]
        /\ channelConfigs[queryLog[i].reg.channelPath].queryParams
               = [a |-> "1", b |-> "3", c |-> "4"]

\* The normalization as the specification words it: repeated separators
\* collapsed, trailing separators removed.
RECURSIVE CollapseSeparators(_)
CollapseSeparators(p) ==
    IF Len(p) < 2 THEN p
    ELSE IF p[1] = Slash /\ p[2] = Slash THEN CollapseSeparators(Tail(p))
    ELSE <<p[1]>> \o CollapseSeparators(Tail(p))

RECURSIVE TrimTrailingSeparators(_)
TrimTrailingSeparators(p) ==
    IF p # << >> /\ p[Len(p)] = Slash
        THEN TrimTrailingSeparators(SubSeq(p, 1, Len(p) - 1))
        ELSE p

\* Joined with the ref id by a separator; an empty or "." path gives just
\* the ref id.  (A path of separators only is left with the separator that
\* joins it to the ref id.)
WordedChannelPath(path, refID) ==
    LET n == TrimTrailingSeparators(CollapseSeparators(path)) IN
    IF path = EmptyStr \/ n = <<Dot>> THEN refID ELSE n \o <<Slash>> \o refID

\* Position i of p starts a segment equal to seg.
SegmentAt(p, i, seg) ==
    /\ i + Len(seg) - 1 <= Len(p)
    /\ SubSeq(p, i, i + Len(seg) - 1) = seg
    /\ (i = 1 \/ p[i - 1] = Slash)
    /\ (i + Len(seg) - 1 = Len(p) \/ p[i + Len(seg)] = Slash)

HasSegment(p, seg) == \E i \in 1..Len(p) : SegmentAt(p, i, seg)

OnlySeparators(p) == p # << >> /\ \A i \in 1..Len(p) : p[i] = Slash

PlainPath(p) == ~HasSegment(p, <<Dot>>) /\ ~HasSegment(p, <<Dot, Dot>>)

WellFormed(q) == q.json.valid

C11_MalformedQueryIsolated ==
    [][queryData'.calls # queryData.calls
         => LET req == queryData'.request
                siblings == SelectSeq(req, WellFormed)
                without == RunQueries([cc |-> channelConfigs, responses |-> EmptyMap,
                                       log |-> << >>],
                                      customQueryParameters, siblings)
            IN  /\ queryData'.err = "nil"
                /\ DOMAIN queryData'.responses = { req[i].refID : i \in 1..Len(req) }
                /\ \A i \in 1..Len(req) :
                       IF WellFormed(req[i])
                          THEN /\ queryData'.responses[req[i].refID]
                                     = without.responses[req[i].refID]
                               /\ queryData'.responses[req[i].refID].error = "nil"
                          ELSE /\ queryData'.responses[req[i].refID].error # "nil"
                               /\ queryData'.responses[req[i].refID].frames = << >>
                /\ channelConfigs' = without.cc
                /\ DOMAIN channelConfigs' =
                       DOMAIN channelConfigs
                          \cup { ChannelPath(siblings[i].json.path, siblings[i].refID) :
                                    i \in 1..Len(siblings) }]_vars

C11_Witness ==
    /\ queryData.calls > 0
    /\ \E i, j \in 1..Len(queryData.request) :
          /\ i < j
          /\ ~WellFormed(queryData.request[i])
          /\ WellFormed(queryData.request[j])
          /\ ChannelPath(queryData.request[j].json.path, queryData.request[j].refID)
                \in DOMAIN channelConfigs
          /\ queryData.responses[queryData.request[i].refID].error = "unmarshal"
          /\ queryData.responses[queryData.request[j].refID].error = "nil"

(***************************************************************************)
(* C15: when the settings define a header or query-parameter name both in  *)
(* the structured fields and through a legacy key, the loaded settings     *)
(* carry the structured value for that name.                               *)
(***************************************************************************)
C15_StructuredValueWins ==
    (instances.created > 1 /\ instances.err = "nil")
        => LET json == instances.settings.json IN
           /\ \A name \in DOMAIN json.headers :
                  json.headers[name] # ""
                     => name \in DOMAIN customHeaders
                        /\ customHeaders[name] = json.headers[name]
           /\ \A name \in DOMAIN json.queryParameters :
                  json.queryParameters[name] # ""
                     => name \in DOMAIN customQueryParameters
                        /\ customQueryParameters[name] = json.queryParameters[name]

(***************************************************************************)
(* C12: when NewWsDataProxy fails (the URL cannot be built or the dial     *)
(* fails), RunStream emits exactly one error frame, returns the connect    *)
(* failure, starts neither the read nor the relay activity and leaves no   *)
(* open connection.                                                        *)
(***************************************************************************)
C12_ConnectFailureIsClean ==
    /\ [][\A s \in Subs :
            (sup[s].pc = "connecting" /\ sup'[s].pc # "connecting"
                                      /\ sup'[s].pc # "select")
               => /\ sup'[s].pc = "returned"
                  /\ sup'[s].result = "ConnectFailed"
                  /\ Len(frames'[s]) = Len(frames[s]) + 1
                  /\ IsError(frames'[s][Len(frames'[s])])]_vars
    /\ [](\A s \in Subs :
            sup[s].result = "ConnectFailed"
               => /\ sup[s].pc = "returned"
                  /\ Len(frames[s]) = 1
                  /\ IsError(frames[s][1])
                  /\ reader[s].pc = "none"
                  /\ relay[s].pc = "none"
                  /\ conn[s] # "open"
                  /\ ~proxy[s].built)

C12_Witness ==
    \E s \in Subs :
        /\ sup[s].result = "ConnectFailed"
        /\ dials[s] = 1
        /\ Len(frames[s]) = 1

(***************************************************************************)
(* C13: SubscribeStream answers OK for every request, also for a channel   *)
(* without registry entry or with an unreachable upstream, and changes no  *)
(* state; the missing config or the unreachable upstream shows only when   *)
(* RunStream runs.                                                         *)
(***************************************************************************)
C13_SubscribeAlwaysOk ==
    /\ [][subscribe'.calls # subscribe.calls
            => /\ subscribe'.status = "OK"
               /\ UNCHANGED <<hostVars, instanceVars, queryVars, publishCalls,
                              publishStatus, streamVars>>]_vars
    /\ [](subscribe.calls > 0 => subscribe.status = "OK")
    /\ [][\A s \in Subs :
            sup'[s].result # sup[s].result
               => /\ sup[s].pc \in {"idle", "connecting"}
                  /\ UNCHANGED subscribe]_vars

C13_Witness ==
    /\ subscribe.status = "OK"
    /\ ~getChannelConfig(channelConfigs, subscribe.path).ok
    /\ \E s \in Subs :
          /\ sup[s].path = subscribe.path
          /\ sup[s].result = "MissingConfig"

(***************************************************************************)
(* C14: with two subscriptions on one instance, a step in which one        *)
(* RunStream call ends (missing config, connect failure, receive failure   *)
(* or cancellation) changes nothing of the other subscription, and the     *)
(* other's activities can keep running.                                    *)
(***************************************************************************)
SubState(s) ==
    <<sup[s], ctxDone[s], proxy[s], conn[s], msgRead[s], done[s], reader[s],
      relay[s], frames[s], received[s], dials[s]>>

Ended(s) == sup[s].pc \in {"returned", "panicked"}

C14_OtherSubscriptionUnaffected ==
    [][\A a, b \in PairSubs :
          (a # b /\ ~Ended(a) /\ Ended(a)')
             => /\ SubState(b)' = SubState(b)
                /\ process' = "up"]_vars

(***************************************************************************)
(* C16: an instance created by (re)configuration starts with an empty      *)
(* registry, so a RunStream call on it for a channel registered only on a  *)
(* previous instance fails with the missing-config error; malformed        *)
(* settings create no instance.                                            *)
(***************************************************************************)
C16_NewInstanceStartsEmpty ==
    /\ [][instances'.created # instances.created
            => /\ channelConfigs' = EmptyRegistry
               /\ \A k \in instances'.retired : ~getChannelConfig(channelConfigs', k).ok]_vars
    /\ [][instances'.failed # instances.failed
            => /\ instances'.created = instances.created
               /\ instances'.err # "nil"
               /\ UNCHANGED instanceVars]_vars
    /\ [][\A s \in Subs :
            (sup[s].pc = "idle" /\ sup'[s].pc # "idle"
                                /\ sup'[s].path \in instances.retired)
               => IF sup'[s].path \in DOMAIN channelConfigs
                     THEN sup'[s].pc = "connecting"
                     ELSE sup'[s].result = "MissingConfig"]_vars

C16_Witness ==
    /\ instances.created = 2
    /\ \E s \in Subs :
          /\ sup[s].instance = 2
          /\ sup[s].path \in instances.retired
          /\ sup[s].result = "MissingConfig"

(***************************************************************************)
(* C17: in every state in which RunStream has returned through the         *)
(* cancellation branch, the subscription's connection is closed.           *)
(***************************************************************************)
C17_CancelClosesConnection ==
    \A s \in Subs :
        (sup[s].pc = "returned" /\ sup[s].result = "nil") => conn[s] = "closed"

(***************************************************************************)
(* C18: a RunStream call dials at most once, and only while it connects;   *)
(* a connection opens only with that dial; once the read activity has had  *)
(* a receive failure, or the call has ended (connect failure, receive      *)
(* failure, cancellation), there is no further dial, no new connection,    *)
(* and the read activity begins no further receive (a receive begins when  *)
(* its select takes the default branch).                                   *)
(***************************************************************************)
BeginsReceive(s) == reader[s].pc # "reading" /\ reader'[s].pc = "reading"

C18_OneDialNoRetry ==
    /\ [](\A s \in Subs : dials[s] <= 1)
    /\ [][\A s \in Subs :
            /\ dials'[s] # dials[s] => sup[s].pc = "connecting"
            /\ (conn'[s] = "open" /\ conn[s] # "open")
                  => (conn[s] = "none" /\ dials'[s] = dials[s] + 1)
            /\ reader[s].pc \in {"report", "defer", "done"} => ~BeginsReceive(s)
            /\ Ended(s) => /\ dials'[s] = dials[s]
                           /\ conn'[s] = "open" => conn[s] = "open"
                           /\ ~BeginsReceive(s)]_vars

C18_Witness ==
    \E s \in Subs :
        /\ sup[s].pc = "returned"
        /\ sup[s].result = "nil"
        /\ reader[s].pc = "done"
        /\ Len(received[s]) > 0
        /\ dials[s] = 1

(***************************************************************************)
(* C19: for one subscription no SendFrame call begins while another is in  *)
(* progress: the supervisor never emits an error frame while the relay is  *)
(* inside its SendFrame call, and the relay begins an emit only after its  *)
(* previous one returned.                                                  *)
(***************************************************************************)
C19_NoConcurrentEmits ==
    /\ [](\A s \in Subs : ~emitOverlap[s])
    /\ [][\A s \in Subs :
            Len(frames'[s]) > Len(frames[s])
               => /\ Len(frames'[s]) = Len(frames[s]) + 1
                  /\ relay[s].pc # "sending"]_vars

C19_Witness ==
    \E s \in Subs :
        /\ relay[s].pc = "sending"
        /\ reader[s].pc = "report"
        /\ Len(frames[s]) = 2

(***************************************************************************)
(* C20: the read activity begins no receive while a message it received    *)
(* earlier has not been taken by the relay: at most one received message   *)
(* waits for the handoff, and it waits with the read activity blocked on   *)
(* the handoff.                                                            *)
(***************************************************************************)
Taken(s) == Len(Responses(s)) + (IF relay[s].pc = "send" THEN 1 ELSE 0)

Waiting(s) == Len(received[s]) - Taken(s)

C20_OneMessageWaiting ==
    /\ [](\A s \in Subs :
            /\ Waiting(s) \in {0, 1}
            /\ Waiting(s) = 1 <=> reader[s].pc = "handoff"
            /\ reader[s].pc = "reading" => Waiting(s) = 0)
    /\ [][\A s \in Subs : BeginsReceive(s) => Waiting(s) = 0]_vars

C20_Witness ==
    \E s \in Subs :
        /\ reader[s].pc = "handoff"
        /\ relay[s].pc = "send"
        /\ Len(received[s]) = 2
        /\ Len(Responses(s)) = 0

(***************************************************************************)
(* C21: a failed emit of a response frame stops neither the relay loop nor *)
(* the subscription: the relay is back at its receive, nothing else of the *)
(* subscription changes, and the next handed-off message is taken and      *)
(* emitted like any other.                                                 *)
(***************************************************************************)
C21_EmitFailureIsNotFatal ==
    /\ [][\A s \in Subs :
            (relay[s].pc = "send" /\ relay'[s].pc # "send" /\ relay'[s].sendErr)
               => /\ relay'[s].pc = "recv"
                  /\ relay'[s].fields = << >>
                  /\ UNCHANGED <<sup, reader, conn, msgRead, done, ctxDone, received>>]_vars
    /\ [][\A s \in Subs :
            (relay[s].sendErr /\ relay[s].pc = "send" /\ relay'[s].pc # "send")
               => /\ Len(frames'[s]) = Len(frames[s]) + 1
                  /\ frames'[s][Len(frames'[s])] = ResponseFrameOf(relay[s].message)]_vars

C21_Witness ==
    \E s \in Subs :
        /\ relay[s].sendErr
        /\ relay[s].pc = "send"
        /\ sup[s].pc = "select"
        /\ reader[s].pc = "reading"
        /\ Len(Responses(s)) = 1
        /\ Len(received[s]) = 2

(***************************************************************************)
(* C22: the read activity takes the stop signal only at its select,        *)
(* between receives; a receive in progress ends only by a message or an    *)
(* error.  Once it has taken the signal it begins no receive and hands off *)
(* nothing, closes the connection and the handoff, and the relay, when it  *)
(* finds the handoff closed, terminates without emitting a frame for it.   *)
(***************************************************************************)
SignalObserved(s) ==
    /\ sup[s].pc = "returned"
    /\ sup[s].result = "nil"
    /\ reader[s].pc = "defer"

RegisteredPaths ==
    { queryLog[i].reg.channelPath :
        i \in { j \in 1..Len(queryLog) : queryLog[j].reg.registered } }

C24_RegisteredBeforeResponse ==
    /\ [][Len(queryLog') = Len(queryLog) + 1 /\ queryLog'[Len(queryLog')].query.json.valid
            => LET call == queryLog'[Len(queryLog')]
                   cp == ChannelPath(call.query.json.path, call.query.refID)
               IN  /\ call.response.error = "nil"
                   /\ Len(call.response.frames) = 1
                   /\ call.response.frames[1].fields = << >>
                   /\ call.response.frames[1].channel =
                         [scope |-> "ds", namespace |-> UID, path |-> cp]
                   /\ cp \in DOMAIN channelConfigs'
                   /\ channelConfigs'[cp] =
                         [path |-> call.query.json.path,
                          queryParams |-> mergeQueryParams(customQueryParameters,
                                                           call.query.json.queryParams)]]_vars
    /\ [](RegisteredPaths \subseteq DOMAIN channelConfigs)
    /\ [][\A s \in Subs :
            (sup[s].pc = "idle" /\ sup'[s].pc # "idle"
                                /\ sup'[s].path \in RegisteredPaths)
               => (sup'[s].pc = "connecting" /\ sup'[s].result = "none"
                                             /\ frames'[s] = frames[s])]_vars

C24_Witness ==
    \E s \in Subs :
        /\ sup[s].path \in RegisteredPaths
        /\ sup[s].pc = "connecting"
        /\ sup[s].cfg = channelConfigs[sup[s].path]

(***************************************************************************)
(* C25: the handoff channel and the connection are each closed at most     *)
(* once, by the read activity's deferred function, after its last          *)
(* hand-off; nothing is sent on the closed handoff and no receive is       *)
(* attempted on the closed connection.                                     *)
(***************************************************************************)
C25_ClosedOnceAfterLastUse ==
    /\ [](\A s \in Subs :
            /\ reader[s].pc = "defer" => (conn[s] = "open" /\ msgRead[s] = "open")
            /\ (conn[s] = "closed" \/ msgRead[s] = "closed")
                  => (reader[s].pc = "done" /\ conn[s] = "closed"
                                            /\ msgRead[s] = "closed")
            /\ reader[s].pc = "handoff" => msgRead[s] = "open"
            /\ reader[s].pc = "reading" => conn[s] = "open")
    /\ [][\A s \in Subs :
            /\ (conn'[s] # conn[s] /\ conn'[s] = "closed")
                  => (reader[s].pc = "defer" /\ reader'[s].pc = "done")
            /\ (msgRead'[s] # msgRead[s] /\ msgRead'[s] = "closed")
                  => (reader[s].pc = "defer" /\ reader'[s].pc = "done")
            /\ conn[s] = "closed" => conn'[s] = "closed"
            /\ msgRead[s] = "closed" => msgRead'[s] = "closed"
            /\ reader[s].pc = "done" => reader'[s].pc = "done"]_vars

C25_Witness ==
    \E s \in Subs :
        /\ reader[s].pc = "done"
        /\ relay[s].pc = "send"
        /\ msgRead[s] = "closed"
        /\ conn[s] = "closed"
        /\ Len(received[s]) = 2

(***************************************************************************)
(* C26: after cancellation RunStream always returns nil without emitting   *)
(* an error frame, whatever the read activity is doing: whenever the       *)
(* supervisor leaves its select with the context cancelled, it has sent    *)
(* the stop signal and returned nil.                                       *)
(***************************************************************************)
C26_CancelAlwaysReturnsNil ==
    [][\A s \in Subs :
          (sup[s].pc = "select" /\ ctxDone[s] /\ sup'[s].pc # "select")
             => /\ sup'[s].pc = "returned"
                /\ sup'[s].result = "nil"
                /\ Len(done'[s]) = 1
                /\ frames'[s] = frames[s]]_vars

(***************************************************************************)
(* C27: whenever the read activity is at the point of reporting a receive  *)
(* failure, the report is eventually taken and the read activity           *)
(* terminates, closing the connection and the handoff, and the relay       *)
(* terminates (unless the process itself has ended).                       *)
(***************************************************************************)
C27_FailureReportIsTaken ==
    \A s \in Subs :
        reader[s].pc = "report"
            ~> \/ process = "exited"
               \/ /\ reader[s].pc = "done"
                  /\ relay[s].pc = "done"
                  /\ conn[s] = "closed"
                  /\ msgRead[s] = "closed"

(***************************************************************************)
(* C28: a proxy is built from the channel config its RunStream call read   *)
(* from the registry, and keeps it: registering the channel again changes  *)
(* neither the proxy's URL nor its stored path and parameters; a RunStream *)
(* call reads the config that is in the registry when it looks up.         *)
(***************************************************************************)
C28_ProxyKeepsItsConfig ==
    /\ [](\A s \in Subs :
            proxy[s].built
               => /\ proxy[s].path = sup[s].cfg.path
                  /\ proxy[s].queryParams = sup[s].cfg.queryParams
                  /\ proxy[s].wsUrl = [path |-> Join(HostPath, sup[s].cfg.path),
                                       rawQuery |-> sup[s].cfg.queryParams])
    /\ [][\A s \in Subs :
            /\ proxy[s].built => proxy'[s] = proxy[s]
            /\ sup[s].pc # "idle" => sup'[s].cfg = sup[s].cfg
            /\ (sup[s].pc = "idle" /\ sup'[s].pc = "connecting")
                  => sup'[s].cfg = channelConfigs[sup'[s].path]]_vars

C28_Witness ==
    \E s \in Subs :
        /\ proxy[s].built
        /\ conn[s] = "open"
        /\ proxy[s].path = <<"f", "o", "o", "/">>
        /\ channelConfigs[sup[s].path].path = <<"f", "o", "o">>
        /\ proxy[s].queryParams # channelConfigs[sup[s].path].queryParams

(***************************************************************************)
(* C29: for every query path and ref id the channel the frontend computes  *)
(* for the query equals the channel the backend registered and put on the  *)
(* query's frame, so the frontend's filter matches the query's streaming   *)
(* events.                                                                 *)
(***************************************************************************)
C29_FrontendMatchesBackend ==
    \A k \in 1..Len(frontend) : frontend[k].match

(***************************************************************************)
(* C23: under every interleaving of registrations and lookups, a lookup    *)
(* returns either nothing or the whole config of one registration; a       *)
(* writer inside setChannelConfig excludes every other writer and reader;  *)
(* and a thread holds the lock only inside the map access, not after its   *)
(* call returned (when RunStream goes on to dial).                         *)
(***************************************************************************)
InWrite(t) == access[t].pc \in {"locked", "storedPath", "stored"}

InRead(t) == access[t].pc \in {"rlocked", "loadedPath", "loaded"}

C23_RegistryAccessIsAtomic ==
    /\ \A t \in Readers :
          access[t].pc \in {"returned", "dialing", "failed"}
             => IF access[t].ok
                   THEN \E w \in Writers : access[t].cfg = WriterConfig(w)
                   ELSE access[t].cfg = ZeroChannelConfig
    /\ \A w \in Writers :
          InWrite(w) => /\ mu.writer = w
                        /\ \A t \in (Writers \cup Readers) \ {w} :
                              ~InWrite(t) /\ ~InRead(t)
    /\ \A t \in Readers : InRead(t) <=> t \in mu.readers
    /\ \A w \in Writers : mu.writer = w <=> InWrite(w)
    /\ \A t \in Writers \cup Readers :
          access[t].pc \in {"idle", "returned", "dialing", "failed"}
             => (mu.writer # t /\ t \notin mu.readers)

C23_Witness ==
    /\ \A w \in Writers : access[w].pc = "returned"
    /\ access["r1"].pc = "dialing"
    /\ access["r2"].pc = "dialing"
    /\ access["r1"].cfg = WriterConfig("w1")
    /\ access["r2"].cfg = WriterConfig("w2")
====
